---- MODULE Spec2Model ----
(***************************************************************************)
(* A model of src/src/parser.rs: the nom-based recursive-descent parser of *)
(* the MiniML expression language.  Every rule function of the file is a   *)
(* rule of the model; a run of the model is the call tree of one call of   *)
(* one rule on one input text, kept as an explicit call stack.             *)
(*                                                                         *)
(* Text is a sequence of one-character strings.  A position is the number  *)
(* of characters already consumed, so the remainder at position p of s is  *)
(* SubSeq(s, p+1, Len(s)).                                                 *)
(***************************************************************************)
EXTENDS Integers, Sequences, FiniteSets, TLC

VARIABLES input, entry, stack, ret, status, result

vars == <<input, entry, stack, ret, status, result>>

(***************************************************************************)
(* Bounds of the model.                                                    *)
(***************************************************************************)
\* longest generated input text
MaxLen == 3
\* number of activations the call stack holds before it overflows
MaxDepth == 10

(***************************************************************************)
(* Character classes of nom::character::complete (ASCII).                  *)
(***************************************************************************)
Letters ==
    {"a","b","c","d","e","f","g","h","i","j","k","l","m",
     "n","o","p","q","r","s","t","u","v","w","x","y","z",
     "A","B","C","D","E","F","G","H","I","J","K","L","M",
     "N","O","P","Q","R","S","T","U","V","W","X","Y","Z"}

Digits == {"0","1","2","3","4","5","6","7","8","9"}

(***************************************************************************)
(* Values: the Expression enum, the Variable and Definition structs, and   *)
(* the &str slice a nom recogniser returns.  One record shape for all;     *)
(* num is the i32 of Num and 0 elsewhere.                                  *)
(***************************************************************************)
Value(t, k, x) == [tag |-> t, kids |-> k, text |-> x, num |-> 0]

NoValue == Value("none", <<>>, <<>>)

\* Variable { ident: s.to_string() }
Variable(s) == Value("Variable", <<>>, s)

\* a &str slice of the input
Slice(s) == Value("str", <<>>, s)

\* a variant of Expression with its children, left to right
Expression(t, k) == Value(t, k, <<>>)

(***************************************************************************)
(* Results of a nom parser: Ok((remainder, value)) or                      *)
(* Err(Error { input, code }); pos is the position of the remainder, or of *)
(* the input the error was raised at.                                      *)
(***************************************************************************)
Ok(p, v) == [kind |-> "ok", pos |-> p, val |-> v, code |-> "none"]

Err(p, c) == [kind |-> "err", pos |-> p, val |-> NoValue, code |-> c]

NoRet == [kind |-> "none", pos |-> 0, val |-> NoValue, code |-> "none"]

(***************************************************************************)
(* nom primitives.                                                         *)
(***************************************************************************)
\* tag(t): the next Len(t) characters are exactly t
tag(t, s, p) ==
    IF p + Len(t) <= Len(s) /\ SubSeq(s, p + 1, p + Len(t)) = t
    THEN Ok(p + Len(t), Slice(t))
    ELSE Err(p, "Tag")

\* end of the maximal run of characters of class C that starts at p
RECURSIVE RunEnd(_, _, _)
RunEnd(C, s, p) ==
    IF p < Len(s) /\ s[p + 1] \in C THEN RunEnd(C, s, p + 1) ELSE p

\* alpha1: one or more ASCII letters
alpha1(s, p) ==
    LET q == RunEnd(Letters, s, p)
    IN  IF q > p THEN Ok(q, Slice(SubSeq(s, p + 1, q))) ELSE Err(p, "Alpha")

\* alphanumeric1: one or more ASCII letters or digits
alphanumeric1(s, p) ==
    LET q == RunEnd(Letters \cup Digits, s, p)
    IN  IF q > p THEN Ok(q, Slice(SubSeq(s, p + 1, q)))
        ELSE Err(p, "AlphaNumeric")

\* digit1: one or more ASCII digits
digit1(s, p) ==
    LET q == RunEnd(Digits, s, p)
    IN  IF q > p THEN Ok(q, Slice(SubSeq(s, p + 1, q))) ELSE Err(p, "Digit")

\* alt((a, b)) of two results computed at the same position: the first Ok,
\* else the error of the last alternative
alt2(a, b) == IF a.kind = "ok" THEN a ELSE b


\* many0_count(alt((alphanumeric1, tag("_")))): repeat until the first
\* failure, return the position reached (both alternatives consume at least
\* one character, so the no-progress error of many0_count cannot arise)
RECURSIVE many0_count(_, _)
many0_count(s, p) ==
    LET r == alt2(alphanumeric1(s, p), tag(<<"_">>, s, p))
    IN  IF r.kind = "ok" THEN many0_count(s, r.pos) ELSE p

(***************************************************************************)
(* Leaf rules: the rule functions made of nom primitives only.             *)
(***************************************************************************)
\* recognize(pair(alt((alpha1, tag("_"))), many0_count(...))), then Variable
parse_variable(s, p) ==
    LET head == alt2(alpha1(s, p), tag(<<"_">>, s, p))
    IN  IF head.kind = "err" THEN head
        ELSE LET q == many0_count(s, head.pos)
             IN  Ok(q, Variable(SubSeq(s, p + 1, q)))

\* alt((value(True, tag("true")), value(False, tag("false"))))
parse_bool(s, p) ==
    LET t == tag(<<"t","r","u","e">>, s, p)
        f == tag(<<"f","a","l","s","e">>, s, p)
    IN  alt2(IF t.kind = "ok" THEN Ok(t.pos, Expression("True", <<>>)) ELSE t,
             IF f.kind = "ok" THEN Ok(f.pos, Expression("False", <<>>)) ELSE f)

\* digit1(input): the digit run itself is the value, no Num is built
parse_num(s, p) == digit1(s, p)

\* value(Nil, tag("nil"))
parse_nil(s, p) ==
    LET t == tag(<<"n","i","l">>, s, p)
    IN  IF t.kind = "ok" THEN Ok(t.pos, Expression("Nil", <<>>)) ELSE t

LeafRules == {"parse_variable", "parse_bool", "parse_num", "parse_nil"}

Leaf(r, s, p) ==
    CASE r = "parse_variable" -> parse_variable(s, p)
      [] r = "parse_bool"     -> parse_bool(s, p)
      [] r = "parse_num"      -> parse_num(s, p)
      [] r = "parse_nil"      -> parse_nil(s, p)

(***************************************************************************)
(* Sequence rules: a list of steps, each `tag(..)(remainder)?` or          *)
(* `rule(remainder)?`, then the node built from the values of the calls.   *)
(* node = "same" returns the value of the only call unchanged.             *)
(***************************************************************************)
T(t) == [op |-> "tag", tag |-> t, rule |-> "none"]

R(r) == [op |-> "call", tag |-> <<>>, rule |-> r]

Seq_(st, n) == [kind |-> "seq", steps |-> st, node |-> n, alts |-> <<>>]

Alt_(a) == [kind |-> "alt", steps |-> <<>>, node |-> "none", alts |-> a]

LPar == <<"(">>

RPar == <<")">>

\* the steps shared by not, succ, fst, snd, hd, tl and pred: kw ( E )
Prefix(kw) == <<T(kw), T(LPar), R("parse_e_top"), T(RPar)>>

\* the steps shared by ==, ::, and, +: E op E
Infix(op) == <<R("parse_e_top"), T(op), R("parse_e_top")>>

parser == Seq_(<<R("parse_e_top")>>, "same")

parse_e_variable == Seq_(<<R("parse_variable")>>, "Var")

parse_let ==
    Seq_(<<T(<<"l","e","t">>), R("parse_def"), T(<<"i","n">>),
           R("parse_e_top")>>, "Let")

parse_def ==
    Seq_(<<R("parse_variable"), T(<<"=">>), R("parse_e_top")>>, "Definition")

parse_not == Seq_(Prefix(<<"n","o","t">>), "Not")

parse_if ==
    Seq_(<<T(<<"i","f">>), R("parse_e_top"), T(<<"t","h","e","n">>),
           R("parse_e_top"), T(<<"e","l","s","e">>), R("parse_e_top")>>, "If")

parse_succ == Seq_(Prefix(<<"s","u","c","c">>), "Succ")

parse_pair ==
    Seq_(<<T(<<"<">>), R("parse_e_top"), T(<<",">>), R("parse_e_top"),
           T(RPar)>>, "Pair")

parse_fst == Seq_(Prefix(<<"f","s","t">>), "Fst")

parse_snd == Seq_(Prefix(<<"s","n","d">>), "Snd")

parse_hd == Seq_(Prefix(<<"h","d">>), "Hd")

parse_tl == Seq_(Prefix(<<"t","l">>), "Tl")

\* line 177 builds Expression::Succ
parse_pred == Seq_(Prefix(<<"p","r","e","d">>), "Succ")

parse_fn ==
    Seq_(<<T(<<"f","n">>), R("parse_variable"), T(<<".">>),
           R("parse_e_top")>>, "Fn")

parse_eq == Seq_(Infix(<<"=","=">>), "Eq")

parse_cons == Seq_(Infix(<<":",":">>), "Cons")

parse_and == Seq_(Infix(<<"a","n","d">>), "And")

parse_add == Seq_(Infix(<<"+">>), "Add")

parse_apply_1 ==
    Seq_(<<R("parse_e_top"), T(LPar), R("parse_e_top"), T(RPar)>>, "Apply")

parse_apply_2 == Seq_(<<R("parse_e_top"), R("parse_e_top")>>, "Apply")

parse_e_top_bracket ==
    Seq_(<<T(LPar), R("parse_e_top"), T(RPar)>>, "same")

(***************************************************************************)
(* Layers: alt((..)) over rule functions, in the order written.            *)
(***************************************************************************)
\* a defective atomic layer: the boolean literals before the identifier
parse_e_null_bool_first ==
    Alt_(<<"parse_bool", "parse_e_variable", "parse_num", "parse_let",
           "parse_not", "parse_if", "parse_succ", "parse_pair", "parse_fst",
           "parse_snd", "parse_nil", "parse_hd", "parse_tl", "parse_pred">>)

parse_e_null ==
    Alt_(<<"parse_e_variable", "parse_bool", "parse_num", "parse_let",
           "parse_not", "parse_if", "parse_succ", "parse_pair", "parse_fst",
           "parse_snd", "parse_nil", "parse_hd", "parse_tl", "parse_pred">>)

parse_e_fifth == Alt_(<<"parse_fn", "parse_e_null">>)

parse_e_fourth == Alt_(<<"parse_eq", "parse_e_fifth">>)

parse_e_third == Alt_(<<"parse_cons", "parse_e_fourth">>)

parse_e_second == Alt_(<<"parse_and", "parse_e_third">>)

parse_e_first == Alt_(<<"parse_add", "parse_e_second">>)

parse_e_zeroth == Alt_(<<"parse_apply_1", "parse_apply_2", "parse_e_first">>)

parse_e_top == Alt_(<<"parse_e_top_bracket", "parse_e_zeroth">>)

SeqRules ==
    {"parser", "parse_e_variable", "parse_let", "parse_def", "parse_not",
     "parse_if", "parse_succ", "parse_pair", "parse_fst", "parse_snd",
     "parse_hd", "parse_tl", "parse_pred", "parse_fn", "parse_eq",
     "parse_cons", "parse_and", "parse_add", "parse_apply_1",
     "parse_apply_2", "parse_e_top_bracket"}

AltRules ==
    {"parse_e_null", "parse_e_fifth", "parse_e_fourth", "parse_e_third",
     "parse_e_second", "parse_e_first", "parse_e_zeroth", "parse_e_top"}

Rules == LeafRules \cup SeqRules \cup AltRules

Rule(r) ==
    CASE r = "parser"              -> parser
      [] r = "parse_e_variable"    -> parse_e_variable
      [] r = "parse_let"           -> parse_let
      [] r = "parse_def"           -> parse_def
      [] r = "parse_not"           -> parse_not
      [] r = "parse_if"            -> parse_if
      [] r = "parse_succ"          -> parse_succ
      [] r = "parse_pair"          -> parse_pair
      [] r = "parse_fst"           -> parse_fst
      [] r = "parse_snd"           -> parse_snd
      [] r = "parse_hd"            -> parse_hd
      [] r = "parse_tl"            -> parse_tl
      [] r = "parse_pred"          -> parse_pred
      [] r = "parse_fn"            -> parse_fn
      [] r = "parse_eq"            -> parse_eq
      [] r = "parse_cons"          -> parse_cons
      [] r = "parse_and"           -> parse_and
      [] r = "parse_add"           -> parse_add
      [] r = "parse_apply_1"       -> parse_apply_1
      [] r = "parse_apply_2"       -> parse_apply_2
      [] r = "parse_e_top_bracket" -> parse_e_top_bracket
      [] r = "parse_e_null"        -> parse_e_null
      [] r = "parse_e_fifth"       -> parse_e_fifth
      [] r = "parse_e_fourth"      -> parse_e_fourth
      [] r = "parse_e_third"       -> parse_e_third
      [] r = "parse_e_second"      -> parse_e_second
      [] r = "parse_e_first"       -> parse_e_first
      [] r = "parse_e_zeroth"      -> parse_e_zeroth
      [] r = "parse_e_top"         -> parse_e_top
      [] OTHER                     -> Seq_(<<>>, "none")

\* the node a sequence rule returns for the values of its calls
Build(node, vals) ==
    IF node = "same" THEN vals[1]
    ELSE IF node = "Definition" THEN Value("Definition", vals, <<>>)
    ELSE Expression(node, vals)


(***************************************************************************)
(* Input texts: the texts of the documented examples, and every text over  *)
(* Alphabet of at most MaxLen characters.                                  *)
(***************************************************************************)
Alphabet == {"a", "_", "1", "("}

Generated == UNION {[1..k -> Alphabet] : k \in 0..MaxLen}

Examples ==
    {<<"x","+","y">>,
     <<"a","+","b"," ","a","n","d"," ","c">>,
     <<"a",":",":","b","=","=","c">>,
     <<"s","u","c","c","(","p","r","e","d","(","3",")",")">>,
     <<"p","r","e","d","(","3",")">>,
     <<"4","2">>,
     <<"t","r","u","e">>,
     <<"f","a","l","s","e">>,
     <<"n","i","l">>,
     <<"i","f"," ","a"," ","t","h","e","n"," ","b">>,
     <<"f","n"," ","x","."," ","x">>,
     <<"(","f","n"," ","x","."," ","x",")"," ","y">>,
     <<"f","n","x">>,
     <<"f","n","x",".","x">>,
     <<"(","a","+","b",")">>,
     <<"a","+","b">>,
     <<"l","e","t","x","=","1">>,
     <<"<","a",",","b",")">>,
     <<"x","_","1","Y","+","z">>,
     <<"_","_","a","9","(">>}

Inputs == Generated \cup Examples

(***************************************************************************)
(* The call stack.  An activation holds its rule, the position it was      *)
(* called at (pos), the position of its `remainder` (cur), the index of    *)
(* its next step or alternative (pc), the values of the calls made so far  *)
(* and, in an alt, the error of the alternative that failed last.          *)
(***************************************************************************)
Frame(r, p) ==
    [rule |-> r, pos |-> p, cur |-> p, pc |-> 1, vals |-> <<>>, err |-> NoRet]

Top == stack[Len(stack)]

Pop == SubSeq(stack, 1, Len(stack) - 1)

SetTop(f) == [stack EXCEPT ![Len(stack)] = f]

Running == status = "running" /\ stack # <<>>

Step == Rule(Top.rule).steps[Top.pc]

\* a defective alt: the next alternative starts where the failed one stopped
AltNextPosAtError(f, e) == e.pos

\* where alt((..)) applies its next alternative after one failed: every
\* alternative is applied to a clone of the input alt was given
AltNextPos(f, e) == f.pos

Init ==
    /\ input \in Inputs
    /\ entry \in Rules
    /\ stack = <<Frame(entry, 0)>>
    /\ ret = NoRet
    /\ status = "running"
    /\ result = NoRet

\* a rule made of nom primitives runs to its result
LeafStep ==
    /\ Running
    /\ Top.rule \in LeafRules
    /\ ret' = Leaf(Top.rule, input, Top.pos)
    /\ stack' = Pop
    /\ UNCHANGED <<input, entry, status, result>>

\* let (remainder, _) = tag(..)(remainder)?;
TagStep ==
    /\ Running
    /\ ret.kind = "none"
    /\ Top.rule \in SeqRules
    /\ Top.pc <= Len(Rule(Top.rule).steps)
    /\ Step.op = "tag"
    /\ LET r == tag(Step.tag, input, Top.cur)
       IN  IF r.kind = "ok"
           THEN /\ stack' = SetTop([Top EXCEPT !.cur = r.pos, !.pc = @ + 1])
                /\ ret' = ret
           ELSE /\ stack' = Pop
                /\ ret' = r
    /\ UNCHANGED <<input, entry, status, result>>

\* rule(remainder): a new activation at the caller's remainder
CallStep ==
    /\ Running
    /\ ret.kind = "none"
    /\ Top.rule \in SeqRules
    /\ Top.pc <= Len(Rule(Top.rule).steps)
    /\ Step.op = "call"
    /\ Len(stack) < MaxDepth
    /\ stack' = Append(stack, Frame(Step.rule, Top.cur))
    /\ UNCHANGED <<input, entry, ret, status, result>>

\* let (remainder, e) = rule(remainder)?;  on Ok
SeqResume ==
    /\ Running
    /\ ret.kind = "ok"
    /\ Top.rule \in SeqRules
    /\ stack' = SetTop([Top EXCEPT !.cur = ret.pos, !.pc = @ + 1,
                                   !.vals = Append(@, ret.val)])
    /\ ret' = NoRet
    /\ UNCHANGED <<input, entry, status, result>>

\* let (remainder, e) = rule(remainder)?;  on Err: `?` returns the error
SeqPropagate ==
    /\ Running
    /\ ret.kind = "err"
    /\ Top.rule \in SeqRules
    /\ stack' = Pop
    /\ UNCHANGED <<input, entry, ret, status, result>>

\* Ok((remainder, node))
SeqBuild ==
    /\ Running
    /\ ret.kind = "none"
    /\ Top.rule \in SeqRules
    /\ Top.pc > Len(Rule(Top.rule).steps)
    /\ ret' = Ok(Top.cur, Build(Rule(Top.rule).node, Top.vals))
    /\ stack' = Pop
    /\ UNCHANGED <<input, entry, status, result>>

\* alt((..))(input) applies its next alternative
AltTry ==
    /\ Running
    /\ ret.kind = "none"
    /\ Top.rule \in AltRules
    /\ Len(stack) < MaxDepth
    /\ stack' = Append(stack, Frame(Rule(Top.rule).alts[Top.pc], Top.cur))
    /\ UNCHANGED <<input, entry, ret, status, result>>

\* the alternative returned Ok: alt returns it
AltAccept ==
    /\ Running
    /\ ret.kind = "ok"
    /\ Top.rule \in AltRules
    /\ stack' = Pop
    /\ UNCHANGED <<input, entry, ret, status, result>>

\* the alternative failed and another one is left
AltNext ==
    /\ Running
    /\ ret.kind = "err"
    /\ Top.rule \in AltRules
    /\ Top.pc < Len(Rule(Top.rule).alts)
    /\ stack' = SetTop([Top EXCEPT !.pc = @ + 1, !.err = ret,
                                   !.cur = AltNextPos(Top, ret)])
    /\ ret' = NoRet
    /\ UNCHANGED <<input, entry, status, result>>

\* the last alternative failed: alt returns its error
AltFail ==
    /\ Running
    /\ ret.kind = "err"
    /\ Top.rule \in AltRules
    /\ Top.pc = Len(Rule(Top.rule).alts)
    /\ stack' = Pop
    /\ UNCHANGED <<input, entry, ret, status, result>>

\* a call with no stack left: the process is aborted
StackOverflow ==
    /\ Running
    /\ ret.kind = "none"
    /\ \/ Top.rule \in AltRules
       \/ /\ Top.rule \in SeqRules
          /\ Top.pc <= Len(Rule(Top.rule).steps)
          /\ Step.op = "call"
    /\ Len(stack) >= MaxDepth
    /\ status' = "overflow"
    /\ UNCHANGED <<input, entry, stack, ret, result>>

\* the entry rule returned to its caller
Finish ==
    /\ status = "running"
    /\ stack = <<>>
    /\ status' = ret.kind
    /\ result' = ret
    /\ UNCHANGED <<input, entry, stack, ret>>

Next ==
    \/ LeafStep
    \/ TagStep
    \/ CallStep
    \/ SeqResume
    \/ SeqPropagate
    \/ SeqBuild
    \/ AltTry
    \/ AltAccept
    \/ AltNext
    \/ AltFail
    \/ StackOverflow
    \/ Finish

Spec == Init /\ [][Next]_vars

\* a sequential program takes its next step whenever it has one
FairSpec == Spec /\ WF_vars(Next)

TypeOK ==
    /\ status \in {"running", "ok", "err", "overflow"}
    /\ Len(stack) <= MaxDepth


(***************************************************************************)
(* Expected trees, written with the variants of Expression.                *)
(***************************************************************************)
Var(x) == Expression("Var", <<Variable(x)>>)

Num(n) == [tag |-> "Num", kids |-> <<>>, text |-> <<>>, num |-> n]

Lit(t) == Expression(t, <<>>)

Un(t, e) == Expression(t, <<e>>)

Bin(t, a, b) == Expression(t, <<a, b>>)

Fn(x, e) == Expression("Fn", <<Variable(x), e>>)

Done == status # "running"

\* An activation nested in an activation of the same rule at the same
\* position.  A rule is a pure function of the text and the position, so the
\* inner activation repeats the outer one and the recursion never ends.
Reentered ==
    \E i, j \in 1..Len(stack) :
        /\ i < j
        /\ stack[i].rule = stack[j].rule
        /\ stack[i].pos = stack[j].pos

\* the precedence ladder, loosest first: a layer, then its own productions,
\* then the next tighter layer
Rank(r) ==
    CASE r = "parser"                                  -> 18
      [] r = "parse_e_top"                             -> 17
      [] r = "parse_e_top_bracket"                     -> 16
      [] r = "parse_e_zeroth"                          -> 15
      [] r \in {"parse_apply_1", "parse_apply_2"}      -> 14
      [] r = "parse_e_first"                           -> 13
      [] r = "parse_add"                               -> 12
      [] r = "parse_e_second"                          -> 11
      [] r = "parse_and"                               -> 10
      [] r = "parse_e_third"                           -> 9
      [] r = "parse_cons"                              -> 8
      [] r = "parse_e_fourth"                          -> 7
      [] r = "parse_eq"                                -> 6
      [] r = "parse_e_fifth"                           -> 5
      [] r = "parse_fn"                                -> 4
      [] r = "parse_e_null"                            -> 3
      [] r = "parse_def"                               -> 1
      [] r \in LeafRules                               -> 0
      [] OTHER                                         -> 2

LeftRecursive ==
    {"parse_eq", "parse_cons", "parse_and", "parse_add", "parse_apply_1",
     "parse_apply_2"}

\* C1: a call of the entry point ends: no activation is nested in an
\* identical activation and the stack is never exhausted; on "x+y" it ends
\* with Add(Var(x), Var(y)).
C1_Terminates ==
    entry = "parser" =>
        /\ ~Reentered
        /\ status # "overflow"
        /\ (Done /\ input = <<"x","+","y">>) =>
               /\ status = "ok"
               /\ result.val = Bin("Add", Var(<<"x">>), Var(<<"y">>))

\* C2: the left operand of an infix or application rule is parsed by a
\* strictly tighter rule; every call starts after its caller's start or is a
\* call of a strictly tighter rule; no rule is active twice at one position.
C2_LeftOperandTighter ==
    /\ \A i \in 1..(Len(stack) - 1) :
           /\ (stack[i].rule \in LeftRecursive /\ stack[i].pc = 1) =>
                  Rank(stack[i + 1].rule) < Rank(stack[i].rule)
           /\ \/ stack[i + 1].pos > stack[i].pos
              \/ Rank(stack[i + 1].rule) < Rank(stack[i].rule)
    /\ \A i, j \in 1..Len(stack) :
           (i < j /\ stack[i].rule = stack[j].rule) =>
               stack[i].pos # stack[j].pos

\* C3: an alternative of a layer is always started at the position the layer
\* itself was started at, also after earlier alternatives failed further on.
C3_AltSamePosition ==
    \A i \in 1..(Len(stack) - 1) :
        stack[i].rule \in AltRules => stack[i + 1].pos = stack[i].pos

\* a later alternative is running after an earlier one failed beyond the
\* layer's start, having matched its leading token and a sub-rule
C3_Witness ==
    \E i \in 1..(Len(stack) - 1) :
        /\ stack[i].rule \in AltRules
        /\ stack[i].pc > 1
        /\ stack[i].err.kind = "err"
        /\ stack[i].err.pos > stack[i].pos + 1

AplusBandC == <<"a","+","b"," ","a","n","d"," ","c">>

AconsBeqC == <<"a",":",":","b","=","=","c">>

\* C4: "a+b and c" parses to And(Add(a, b), c) and "a::b==c" to
\* Eq(Cons(a, b), c).
C4_Precedence ==
    (entry = "parser" /\ input \in {AplusBandC, AconsBeqC}) =>
        /\ ~Reentered
        /\ Done =>
               /\ status = "ok"
               /\ result.val =
                      IF input = AplusBandC
                      THEN Bin("And", Bin("Add", Var(<<"a">>), Var(<<"b">>)),
                               Var(<<"c">>))
                      ELSE Bin("Eq", Bin("Cons", Var(<<"a">>), Var(<<"b">>)),
                               Var(<<"c">>))

SuccPred3 == <<"s","u","c","c","(","p","r","e","d","(","3",")",")">>

\* C5: the node a pred( E ) production that has matched "pred(" builds on
\* success is Pred; "succ(pred(3))" parses to Succ(Pred(Num(3))).
C5_PredBuildsPred ==
    /\ \A i \in 1..Len(stack) :
           (stack[i].rule = "parse_pred" /\ stack[i].pc >= 3) =>
               Rule(stack[i].rule).node = "Pred"
    /\ (entry = "parser" /\ input = SuccPred3) =>
           /\ ~Reentered
           /\ Done =>
                  /\ status = "ok"
                  /\ result.val = Un("Succ", Un("Pred", Num(3)))

\* C6: "42" parses to Num(42), "true" to True, "false" to False and "nil" to
\* Nil, from the entry point and in the atomic layer.
C6_Literals ==
    (/\ entry \in {"parser", "parse_e_null"}
     /\ input \in {<<"4","2">>, <<"t","r","u","e">>, <<"f","a","l","s","e">>,
                   <<"n","i","l">>}) =>
        /\ ~Reentered
        /\ Done =>
               /\ status = "ok"
               /\ result.val =
                      CASE input = <<"4","2">>             -> Num(42)
                        [] input = <<"t","r","u","e">>     -> Lit("True")
                        [] input = <<"f","a","l","s","e">> -> Lit("False")
                        [] input = <<"n","i","l">>         -> Lit("Nil")

IfAThenB == <<"i","f"," ","a"," ","t","h","e","n"," ","b">>

\* C7: the empty text fails with UnexpectedToken and "if a then b" with
\* UnterminatedConstruct, as returned values.
C7_Failures ==
    (entry = "parser" /\ input \in {<<>>, IfAThenB}) =>
        /\ ~Reentered
        /\ Done =>
               /\ status = "err"
               /\ result.code = IF input = <<>> THEN "UnexpectedToken"
                                ELSE "UnterminatedConstruct"

FnXX == <<"f","n"," ","x","."," ","x">>

FnXXY == <<"(","f","n"," ","x","."," ","x",")"," ","y">>

\* C8: "fn x. x" parses to Fn(x, Var(x)) and "(fn x. x) y" to
\* Apply(Fn(x, Var(x)), Var(y)).
C8_BinderAndApplication ==
    (entry = "parser" /\ input \in {FnXX, FnXXY}) =>
        /\ ~Reentered
        /\ Done =>
               /\ status = "ok"
               /\ result.val =
                      IF input = FnXX THEN Fn(<<"x">>, Var(<<"x">>))
                      ELSE Bin("Apply", Fn(<<"x">>, Var(<<"x">>)),
                               Var(<<"y">>))

IdentStart == Letters \cup {"_"}

IdentChar == Letters \cup Digits \cup {"_"}

\* length of the maximal prefix of s made of identifier characters
IdentEnd(s) ==
    CHOOSE n \in 0..Len(s) :
        /\ \A k \in 1..n : s[k] \in IdentChar
        /\ n = Len(s) \/ s[n + 1] \notin IdentChar

C10_Case == entry = "parse_e_null" /\ input # <<>> /\ input[1] \in IdentStart

C10_Safe ==
    C10_Case =>
        /\ status # "overflow"
        /\ \A i \in 1..Len(stack) :
               stack[i].rule \in
                   {"parse_e_null", "parse_e_variable", "parse_variable"}
        /\ Done =>
               /\ status = "ok"
               /\ result.pos = IdentEnd(input)
               /\ result.val = Var(SubSeq(input, 1, IdentEnd(input)))

====
